---- MODULE Spec2Model ----
(***************************************************************************)
(* Cascade Folder Permissions (scripts/cascade-permissions.js).            *)
(*                                                                         *)
(* The model follows one Configure Ownership dialog of one document: the   *)
(* renderDocumentOwnershipConfig hook that injects the checkbox and        *)
(* attaches the submit listener, the listener itself, and                  *)
(* _cascadeOwnership with its fallback walk _getSubfoldersManual.  The     *)
(* host (Foundry) supplies the folder tree, Folder#getSubfolders and       *)
(* DocumentClass.updateDocuments; they are modelled as the environment.    *)
(***************************************************************************)
EXTENDS Integers, Sequences, FiniteSets, TLC

VARIABLES
    \* ---- host world ----
    parent,           \* folder -> its parent folder (0: top level), Folder#folder
    children,         \* folder -> sequence of child references, Folder#children
    contents,         \* folder -> [defined, docs], Folder#contents
    docIsFolder,      \* doc instanceof Folder, for the dialog's document
    selects,          \* the form's <select> elements: sequence of [name, value]
    store,            \* document id -> ownership map held by the host
    rendersLeft,      \* render events the host still fires for this dialog
    \* ---- the dialog's form element ----
    checkboxes,       \* injected cascade checkboxes, document order
    listenerAttached, \* actualForm.dataset.cascadeListenerAttached
    listeners,        \* submit listeners attached to the form
    submitted,        \* the form has been submitted
    \* ---- submit listener ----
    shouldCascade,    \* local of the listener (line 89)
    started,          \* cascade invocations started by the submission
    \* ---- _cascadeOwnership ----
    pc,
    formData,
    ownership,
    allFolders,
    stack,            \* _getSubfoldersManual: stack
    result,           \* _getSubfoldersManual: result
    strategy,         \* "none", "primary" or "fallback"
    allUpdates,
    \* ---- observable effects ----
    enumCalls,        \* calls of folder.getSubfolders
    contentsReads,    \* reads of f.contents
    storeCalls,       \* calls of docClass.updateDocuments
    batch,            \* argument of the updateDocuments call
    notifications,    \* ui.notifications.* calls
    errorLogged,      \* console.error was called
    outcome           \* which return of _cascadeOwnership was taken

vars == <<parent, children, contents, docIsFolder, selects, store, rendersLeft,
          checkboxes, listenerAttached, listeners, submitted, shouldCascade,
          started, pc, formData, ownership, allFolders, stack, result,
          strategy, allUpdates, enumCalls, contentsReads, storeCalls, batch,
          notifications, errorLogged, outcome>>

(***************************************************************************)
(* Bounds of the model.                                                    *)
(***************************************************************************)
NumFolders == 3
MaxDocs == 5
MaxRenders == 2
MaxRawLen == 3
MaxWalk == 5
MaxStray == 1

Folders == 1..NumFolders
\* The folder of the dialog (the `folder` argument of _cascadeOwnership).
Target == 1
\* A child reference that is not a Folder instance.
NotAFolder == 0

FolderId(f) == <<0, f>>
ItemId(f, k) == <<f, k>>

(***************************************************************************)
(* Generic helpers.                                                        *)
(***************************************************************************)
Range(s) == {s[i] : i \in 1..Len(s)}
Front(s) == SubSeq(s, 1, Len(s) - 1)
Last(s) == s[Len(s)]
Min(S) == CHOOSE x \in S : \A y \in S : x <= y
EmptyMap == [k \in {} |-> 0]

RECURSIVE SortedSeq(_)
SortedSeq(S) == IF S = {} THEN <<>>
                ELSE <<Min(S)>> \o SortedSeq(S \ {Min(S)})

RECURSIVE Flat(_)
Flat(ss) == IF ss = <<>> THEN <<>> ELSE Head(ss) \o Flat(Tail(ss))

(***************************************************************************)
(* Number(value), lines 132-133.  A raw <select> value is a sequence of    *)
(* one-character strings.  ECMAScript StringToNumber: white space is       *)
(* trimmed, the empty string is 0, an optional sign is followed by decimal *)
(* digits; anything else is NaN.  (The alphabet Chars holds no ".", "e",   *)
(* "x" or "Infinity", so those branches of the grammar cannot arise.)      *)
(* A number is [nan, val]; -0 and 0 are the same key for Set.has.          *)
(***************************************************************************)
Chars == {"0", "1", "2", "3", "4", "-", " ", "a"}
Digits == {"0", "1", "2", "3", "4", "5", "6", "7", "8", "9"}
NaN == [nan |-> TRUE, val |-> 0]
Num(n) == [nan |-> FALSE, val |-> n]

DigitVal(c) == CASE c = "0" -> 0 [] c = "1" -> 1 [] c = "2" -> 2
                 [] c = "3" -> 3 [] c = "4" -> 4 [] c = "5" -> 5
                 [] c = "6" -> 6 [] c = "7" -> 7 [] c = "8" -> 8
                 [] c = "9" -> 9

RECURSIVE TrimStart(_)
TrimStart(s) == IF s # <<>> /\ Head(s) = " " THEN TrimStart(Tail(s)) ELSE s

RECURSIVE TrimEnd(_)
TrimEnd(s) == IF s # <<>> /\ Last(s) = " " THEN TrimEnd(Front(s)) ELSE s

RECURSIVE DecimalValue(_)
DecimalValue(s) == IF s = <<>> THEN 0
                   ELSE 10 * DecimalValue(Front(s)) + DigitVal(Last(s))

Number(value) ==
    LET t == TrimEnd(TrimStart(value))
        signed == t # <<>> /\ Head(t) \in {"+", "-"}
        body == IF signed THEN Tail(t) ELSE t
    IN  IF t = <<>> THEN Num(0)
        ELSE IF body = <<>> \/ \E i \in 1..Len(body) : body[i] \notin Digits
             THEN NaN
        ELSE IF Head(t) = "-" THEN Num(0 - DecimalValue(body))
        ELSE Num(DecimalValue(body))

(***************************************************************************)
(* The ownership loop of _cascadeOwnership, lines 129-140.                 *)
(***************************************************************************)
VALID_LEVELS_UpTo4 == {0, 1, 2, 3, 4}
VALID_LEVELS == {0, 1, 2, 3}

IsValidLevel(level) == ~level.nan /\ level.val \in VALID_LEVELS

\* for (const [key, value] of Object.entries(formData)) { ... }
RECURSIVE BuildOwnership(_, _, _)
BuildOwnership(data, keys, acc) ==
    IF keys = {} THEN acc
    ELSE LET key == CHOOSE k \in keys : TRUE
             level == Number(data[key])
         IN  IF ~IsValidLevel(level)
             THEN BuildOwnership(data, keys \ {key}, acc)
             ELSE BuildOwnership(data, keys \ {key},
                                 [k \in DOMAIN acc \cup {key} |->
                                     IF k = key THEN level.val ELSE acc[k]])

Ownership(data) == BuildOwnership(data, DOMAIN data, EmptyMap)

(***************************************************************************)
(* The listener's formData, lines 96-102: every named <select>, a later    *)
(* one of the same name overwriting an earlier one.                        *)
(***************************************************************************)
ReadSelects(sels) ==
    LET names == {sels[i].name : i \in 1..Len(sels)} \ {""}
        last(n) == CHOOSE i \in 1..Len(sels) :
                      /\ sels[i].name = n
                      /\ \A j \in 1..Len(sels) : sels[j].name = n => j <= i
    IN  [n \in names |-> sels[last(n)].value]

(***************************************************************************)
(* Host: Folder#getSubfolders(true).  The direct sub-folders (the folders  *)
(* whose parent is f), then each one's own sub-folders, recursively.       *)
(***************************************************************************)
RECURSIVE GetSubfolders(_, _)
GetSubfolders(par, f) ==
    LET subs == SortedSeq({c \in Folders : par[c] = f})
    IN  subs \o Flat([i \in 1..Len(subs) |-> GetSubfolders(par, subs[i])])

(***************************************************************************)
(* Host: DocumentClass.updateDocuments(updates).  Each update is merged    *)
(* into the ownership of the document of that id; the first n updates are  *)
(* applied (all of them when the call resolves).                           *)
(***************************************************************************)
MergeOwnership(old, upd) ==
    [k \in DOMAIN old \cup DOMAIN upd |->
        IF k \in DOMAIN upd THEN upd[k] ELSE old[k]]

RECURSIVE ApplyUpdates(_, _, _)
ApplyUpdates(st, updates, n) ==
    IF n = 0 THEN st
    ELSE LET before == ApplyUpdates(st, updates, n - 1)
             u == updates[n]
         IN  IF u._id \in DOMAIN before
             THEN [before EXCEPT ![u._id] = MergeOwnership(@, u.ownership)]
             ELSE before

(***************************************************************************)
(* _getSubfoldersManual, lines 206-218.                                    *)
(***************************************************************************)
\* line 208: [...(root.children ?? []).map((c) => c.folder ?? c)]
InitialStack(ch, root) == ch[root]

\* line 211: f instanceof Folder
IsFolder(f) == f \in Folders

\* lines 213-215: push every child of f
PushChildrenNone(stk, ch, f) == stk
PushChildren(stk, ch, f) == stk \o ch[f]

(***************************************************************************)
(* _cascadeOwnership, lines 142-200.                                       *)
(***************************************************************************)
\* line 142: Object.keys(ownership).length === 0
NeverEmpty(own) == FALSE
IsEmptyOwnership(own) == DOMAIN own = {}

\* line 165: f.contents ?? []
Docs(cont, f) == IF cont[f].defined THEN cont[f].docs ELSE <<>>

\* lines 167-169: one update per document of f
FolderUpdatesSkipFirst(cont, f, own) ==
    LET docs == Docs(cont, f)
    IN  [i \in 1..(Len(docs) - 1) |-> [_id |-> docs[i + 1], ownership |-> own]]
FolderUpdatesWithFolder(cont, f, own) ==
    LET docs == Docs(cont, f)
    IN  <<[_id |-> FolderId(f), ownership |-> own]>> \o
        [i \in 1..Len(docs) |-> [_id |-> docs[i], ownership |-> own]]
FolderUpdates(cont, f, own) ==
    LET docs == Docs(cont, f)
    IN  [i \in 1..Len(docs) |-> [_id |-> docs[i], ownership |-> own]]

\* lines 164-170: the updates of every collected folder, in order
CollectUpdates(cont, folders, own) ==
    Flat([i \in 1..Len(folders) |-> FolderUpdates(cont, folders[i], own)])

\* line 174: allUpdates.length === 0
NeverNoUpdates(updates) == FALSE
NoUpdates(updates) == Len(updates) = 0

\* lines 175-178, 188-191, 195-200: the notifications
Notification(type, key, count, folders) ==
    [type |-> type, key |-> key, count |-> count, folders |-> folders]
NoDocumentsNotification == Notification("info", "NoDocuments", 0, 0)
ErrorNotification == Notification("error", "ErrorCascade", 0, 0)
SuccessNotificationAllFolders(updates, folders) ==
    Notification("info", "SuccessCascade", Len(updates), Len(folders))
SuccessNotification(updates, folders) ==
    Notification("info", "SuccessCascade", Len(updates), Len(folders) - 1)

(***************************************************************************)
(* The render hook, lines 35-83.                                           *)
(***************************************************************************)
\* line 38: data?.isFolder ?? (doc instanceof Folder)
RenderIsFolder(dataIsFolder, isFolderDoc) ==
    IF dataIsFolder = "undefined" THEN isFolderDoc ELSE dataIsFolder = "true"

\* line 80: actualForm.dataset.cascadeListenerAttached
NeverAttached(flag) == FALSE
AlreadyAttached(flag) == flag

\* lines 186-192: the catch block notifies the error and returns
RejectNotificationsFallThrough(updates, folders) ==
    <<ErrorNotification, SuccessNotification(updates, folders)>>
RejectNotifications(updates, folders) == <<ErrorNotification>>

(***************************************************************************)
(* Initial states.  The host guarantees a forest of folders (every folder  *)
(* has one parent, no cycles); Folder#children lists the folders whose     *)
(* parent is the folder.  Each folder holds documents <<f, 1>> .. <<f, n>>.*)
(***************************************************************************)
RECURSIVE Up(_, _, _)
Up(par, f, n) == IF f = 0 \/ n = 0 THEN f ELSE Up(par, par[f], n - 1)

Forests == {par \in [Folders -> 0..NumFolders] :
               /\ par[Target] = 0
               /\ \A f \in Folders : Up(par, f, NumFolders) = 0}

Chain == [f \in Folders |-> f - 1]

ChildrenOf(par) == [f \in Folders |-> SortedSeq({c \in Folders : par[c] = f})]

ContentsOf(count) ==
    [f \in Folders |->
        [defined |-> count[f] >= 0,
         docs |-> [k \in 1..count[f] |-> ItemId(f, k)]]]

RECURSIVE Sum(_, _)
Sum(count, n) == IF n = 0 THEN 0
                 ELSE Sum(count, n - 1) + (IF count[n] > 0 THEN count[n] ELSE 0)

\* count[f] = -1: the folder has no contents array at all
AllContents == {ContentsOf(count) : count \in
                   {c \in [Folders -> -1..MaxDocs] : Sum(c, NumFolders) <= MaxDocs}}

ThinContents == {ContentsOf([f \in Folders |-> n]) : n \in {0, 1}}

OriginalOwnership == [k \in {"default"} |-> 0]

StoreOf(cont) ==
    [id \in {FolderId(f) : f \in Folders} \cup
            UNION {Range(cont[f].docs) : f \in Folders} |-> OriginalOwnership]

Sel(n, v) == [name |-> n, value |-> v]

ScenarioSelects ==
    { <<Sel("default", <<"3">>), Sel("user1", <<"-", "1">>)>>,
      <<Sel("default", <<"-", "1">>), Sel("user1", <<"-", "1", "0">>)>> }

RawValues == UNION {[1..n -> Chars] : n \in 0..MaxRawLen}

RawSelects ==
    { <<Sel("default", v)>> \o more :
        v \in RawValues,
        more \in { <<>>, <<Sel("user1", <<"-", "1">>)>>, <<Sel("", <<"3">>)>> } }

\* Child references the host's guarantee excludes: up to n extra ones.
StrayRefs == Folders \X (Folders \cup {NotAFolder})

RECURSIVE StraySets(_)
StraySets(n) == IF n = 0 THEN {{}}
                ELSE LET prev == StraySets(n - 1)
                     IN  prev \cup {S \cup {r} : S \in prev, r \in StrayRefs}

WithStray(ch, S) ==
    [f \in Folders |-> ch[f] \o SortedSeq({r[2] : r \in {x \in S : x[1] = f}})]

InitDialog ==
    /\ checkboxes = <<>>
    /\ listenerAttached = FALSE
    /\ listeners = 0
    /\ submitted = FALSE
    /\ shouldCascade = FALSE
    /\ started = 0
    /\ pc = "idle"
    /\ formData = EmptyMap
    /\ ownership = EmptyMap
    /\ allFolders = <<>>
    /\ stack = <<>>
    /\ result = <<>>
    /\ strategy = "none"
    /\ allUpdates = <<>>
    /\ enumCalls = 0
    /\ contentsReads = 0
    /\ storeCalls = 0
    /\ batch = <<>>
    /\ notifications = <<>>
    /\ errorLogged = FALSE
    /\ outcome = "none"

\* Every folder forest and every distribution of documents.
Init ==
    /\ parent \in Forests
    /\ children = ChildrenOf(parent)
    /\ contents \in AllContents
    /\ store = StoreOf(contents)
    /\ docIsFolder = TRUE
    /\ selects \in ScenarioSelects
    /\ rendersLeft = 1
    /\ InitDialog

\* Every raw value of the form, over a chain of folders.
InitForm ==
    /\ parent = Chain
    /\ children = ChildrenOf(parent)
    /\ contents \in ThinContents
    /\ store = StoreOf(contents)
    /\ docIsFolder = TRUE
    /\ selects \in RawSelects
    /\ rendersLeft = 1
    /\ InitDialog

\* Repeated renders of the dialog, of a folder or of another document.
InitDialogs ==
    /\ parent = Chain
    /\ children = ChildrenOf(parent)
    /\ contents \in ThinContents
    /\ store = StoreOf(contents)
    /\ docIsFolder \in BOOLEAN
    /\ selects \in ScenarioSelects
    /\ rendersLeft = MaxRenders
    /\ InitDialog

\* Folder#children holding references the forest does not have.
InitGraph ==
    /\ parent \in Forests
    /\ children \in {WithStray(ChildrenOf(parent), S) : S \in StraySets(MaxStray)}
    /\ contents \in ThinContents
    /\ store = StoreOf(contents)
    /\ docIsFolder = TRUE
    /\ selects \in ScenarioSelects
    /\ rendersLeft = 1
    /\ InitDialog

(***************************************************************************)
(* Actions.                                                                *)
(***************************************************************************)
world == <<parent, children, contents, docIsFolder, selects>>
form == <<checkboxes, listenerAttached, listeners, submitted, rendersLeft>>
walk == <<stack, result>>
effects == <<enumCalls, contentsReads, storeCalls, batch, notifications,
             errorLogged, outcome, store>>

\* Hooks.on("renderDocumentOwnershipConfig", ...), lines 35-83
Render(dataIsFolder) ==
    /\ ~submitted
    /\ rendersLeft > 0
    /\ rendersLeft' = rendersLeft - 1
    /\ IF ~RenderIsFolder(dataIsFolder, docIsFolder)
       THEN UNCHANGED <<checkboxes, listenerAttached, listeners>>
       ELSE /\ checkboxes' = Append(checkboxes, FALSE)
            /\ IF AlreadyAttached(listenerAttached)
               THEN UNCHANGED <<listenerAttached, listeners>>
               ELSE /\ listenerAttached' = TRUE
                    /\ listeners' = listeners + 1
    /\ UNCHANGED <<world, store, submitted, shouldCascade, started, pc,
                   formData, ownership, allFolders, walk, strategy, allUpdates,
                   enumCalls, contentsReads, storeCalls, batch, notifications,
                   errorLogged, outcome>>

\* The user ticks or clears an injected checkbox (line 50).
ToggleCheckbox(i) ==
    /\ ~submitted
    /\ i \in 1..Len(checkboxes)
    /\ checkboxes' = [checkboxes EXCEPT ![i] = ~@]
    /\ UNCHANGED <<world, store, rendersLeft, listenerAttached, listeners,
                   submitted, shouldCascade, started, pc, formData, ownership,
                   allFolders, walk, strategy, allUpdates, enumCalls,
                   contentsReads, storeCalls, batch, notifications,
                   errorLogged, outcome>>

\* The form is submitted: every attached listener runs lines 85-104.
Submit ==
    /\ ~submitted
    /\ pc = "idle"
    /\ submitted' = TRUE
    /\ IF listeners = 0
       THEN UNCHANGED <<shouldCascade, started, formData, pc>>
       ELSE /\ shouldCascade' = (checkboxes # <<>> /\ checkboxes[1])
            /\ IF ~shouldCascade' \/ ~docIsFolder
               THEN UNCHANGED <<started, formData, pc>>
               ELSE /\ formData' = ReadSelects(selects)
                    /\ started' = listeners
                    /\ pc' = "delay"
    /\ UNCHANGED <<world, store, rendersLeft, checkboxes, listenerAttached,
                   listeners, ownership, allFolders, walk, strategy, allUpdates,
                   enumCalls, contentsReads, storeCalls, batch, notifications,
                   errorLogged, outcome>>

\* The 250 ms timer fires (line 106); _cascadeOwnership starts, lines 124-146.
BeginCascade ==
    /\ pc = "delay"
    /\ ownership' = Ownership(formData)
    /\ IF IsEmptyOwnership(ownership')
       THEN pc' = "done" /\ outcome' = "nothingToApply"
       ELSE pc' = "collect" /\ UNCHANGED outcome
    /\ UNCHANGED <<world, store, form, shouldCascade, started, formData,
                   allFolders, walk, strategy, allUpdates, enumCalls,
                   contentsReads, storeCalls, batch, notifications, errorLogged>>

\* lines 149-152: folder.getSubfolders(true) returns
GetSubfoldersReturns ==
    /\ pc = "collect"
    /\ enumCalls' = enumCalls + 1
    /\ strategy' = "primary"
    /\ allFolders' = <<Target>> \o GetSubfolders(parent, Target)
    /\ pc' = "flatten"
    /\ UNCHANGED <<world, store, form, shouldCascade, started, formData,
                   ownership, walk, allUpdates, contentsReads, storeCalls,
                   batch, notifications, errorLogged, outcome>>

\* lines 153-155, 207-208: it throws; _getSubfoldersManual starts
GetSubfoldersThrows ==
    /\ pc = "collect"
    /\ enumCalls' = enumCalls + 1
    /\ strategy' = "fallback"
    /\ stack' = InitialStack(children, Target)
    /\ result' = <<>>
    /\ pc' = "walk"
    /\ UNCHANGED <<world, store, form, shouldCascade, started, formData,
                   ownership, allFolders, allUpdates, contentsReads, storeCalls,
                   batch, notifications, errorLogged, outcome>>

\* lines 209-216: one turn of the while loop
WalkStep ==
    /\ pc = "walk"
    /\ stack # <<>>
    /\ Len(result) < MaxWalk
    /\ LET f == Last(stack)
           rest == Front(stack)
       IN  IF ~IsFolder(f)
           THEN stack' = rest /\ UNCHANGED result
           ELSE /\ result' = Append(result, f)
                /\ stack' = PushChildren(rest, children, f)
    /\ UNCHANGED <<world, store, form, shouldCascade, started, formData,
                   ownership, allFolders, strategy, allUpdates, enumCalls,
                   contentsReads, storeCalls, batch, notifications,
                   errorLogged, outcome, pc>>

\* lines 217, 155: the loop ends and the result is concatenated
WalkReturn ==
    /\ pc = "walk"
    /\ stack = <<>>
    /\ allFolders' = <<Target>> \o result
    /\ pc' = "flatten"
    /\ UNCHANGED <<world, store, form, shouldCascade, started, formData,
                   ownership, walk, strategy, allUpdates, enumCalls,
                   contentsReads, storeCalls, batch, notifications,
                   errorLogged, outcome>>

\* lines 160-184: build the updates; notify and return, or call the store
Flatten ==
    /\ pc = "flatten"
    /\ allUpdates' = CollectUpdates(contents, allFolders, ownership)
    /\ contentsReads' = contentsReads + Len(allFolders)
    /\ IF NoUpdates(allUpdates')
       THEN /\ notifications' = Append(notifications, NoDocumentsNotification)
            /\ outcome' = "noDocuments"
            /\ pc' = "done"
            /\ UNCHANGED <<storeCalls, batch>>
       ELSE /\ storeCalls' = storeCalls + 1
            /\ batch' = allUpdates'
            /\ pc' = "awaitStore"
            /\ UNCHANGED <<notifications, outcome>>
    /\ UNCHANGED <<world, store, form, shouldCascade, started, formData,
                   ownership, allFolders, walk, strategy, enumCalls,
                   errorLogged>>

\* lines 184-185, 195-200: updateDocuments resolves
StoreResolves ==
    /\ pc = "awaitStore"
    /\ store' = ApplyUpdates(store, batch, Len(batch))
    /\ notifications' =
          Append(notifications, SuccessNotification(allUpdates, allFolders))
    /\ outcome' = "success"
    /\ pc' = "done"
    /\ UNCHANGED <<world, form, shouldCascade, started, formData, ownership,
                   allFolders, walk, strategy, allUpdates, enumCalls,
                   contentsReads, storeCalls, batch, errorLogged>>

\* lines 186-192: updateDocuments rejects, after applying some of the updates
StoreRejects ==
    /\ pc = "awaitStore"
    /\ \E n \in 0..Len(batch) : store' = ApplyUpdates(store, batch, n)
    /\ errorLogged' = TRUE
    /\ notifications' =
          notifications \o RejectNotifications(allUpdates, allFolders)
    /\ outcome' = "error"
    /\ pc' = "done"
    /\ UNCHANGED <<world, form, shouldCascade, started, formData, ownership,
                   allFolders, walk, strategy, allUpdates, enumCalls,
                   contentsReads, storeCalls, batch>>

Next ==
    \/ \E d \in {"true", "false", "undefined"} : Render(d)
    \/ \E i \in 1..MaxRenders : ToggleCheckbox(i)
    \/ Submit
    \/ BeginCascade
    \/ GetSubfoldersReturns
    \/ GetSubfoldersThrows
    \/ WalkStep
    \/ WalkReturn
    \/ Flatten
    \/ StoreResolves
    \/ StoreRejects

Spec == Init /\ [][Next]_vars
SpecForm == InitForm /\ [][Next]_vars
SpecDialogs == InitDialogs /\ [][Next]_vars
SpecGraph == InitGraph /\ [][Next]_vars

(***************************************************************************)
(* What the claims speak of, stated without the code's own operators.      *)
(***************************************************************************)
\* The containers reachable from the target by child-container edges.
RECURSIVE ReachFrom(_)
ReachFrom(S) ==
    LET more == S \cup {c \in Folders : \E f \in S : c \in Range(children[f])}
    IN  IF more = S THEN S ELSE ReachFrom(more)

Subtree == ReachFrom({Target})

Occurrences(seq, x) == Cardinality({i \in 1..Len(seq) : seq[i] = x})

RECURSIVE ItemCount(_, _)
ItemCount(folders, n) ==
    IF n = 0 THEN 0
    ELSE ItemCount(folders, n - 1) + Len(contents[folders[n]].docs)

Running == pc \notin {"idle", "delay"}
Collected == pc \in {"flatten", "awaitStore", "done"} /\ strategy # "none"
ConcreteLevels == {Num(0), Num(1), Num(2), Num(3)}

\* C1: after the ownership loop, the ownership map holds exactly the keys of
\* the raw form data whose value parses (Number) to 0, 1, 2 or 3, each mapped
\* to that number; keys holding -1, -10, 4, 10 or a non-numeric string are
\* absent.
C1_OwnershipHoldsConcreteLevelsOnly ==
    Running =>
        /\ DOMAIN ownership =
              {k \in DOMAIN formData : Number(formData[k]) \in ConcreteLevels}
        /\ \A k \in DOMAIN ownership :
              /\ ownership[k] \in 0..3
              /\ Num(ownership[k]) = Number(formData[k])
        /\ \A k \in DOMAIN formData :
              formData[k] \in {<<"-", "1">>, <<"-", "1", "0">>, <<"4">>,
                               <<"1", "0">>, <<"a">>, <<"-">>, <<"3", "a">>}
                 => k \notin DOMAIN ownership
        /\ \A k \in DOMAIN formData : \A n \in 0..3 :
              formData[k] = <<ToString(n)>> =>
                 k \in DOMAIN ownership /\ ownership[k] = n

\* C1 witness: {"default": "2", "user1": "-1"} was normalised to {"default": 2}.
C1_Witness ==
    /\ Running
    /\ DOMAIN formData = {"default", "user1"}
    /\ formData["default"] = <<"2">>
    /\ formData["user1"] = <<"-", "1">>
    /\ DOMAIN ownership = {"default"}
    /\ ownership["default"] = 2

\* C2: once the folders are collected, the list holds the target and every
\* container reachable from it exactly once and nothing else, and the
\* fallback walk has collected the same set as getSubfolders(true) returns.
C2_EveryContainerCollectedOnce ==
    Collected =>
        /\ Range(allFolders) = Subtree
        /\ \A f \in Subtree : Occurrences(allFolders, f) = 1
        /\ strategy = "fallback" =>
              Range(allFolders) =
                 {Target} \cup Range(GetSubfolders(parent, Target))

\* C2 witness: the fallback walk collected a chain of three folders.
C2_Witness ==
    /\ Collected
    /\ strategy = "fallback"
    /\ parent[2] = 1
    /\ parent[3] = 2
    /\ Len(allFolders) = 3

\* C3: with an empty ownership map the invocation has ended without calling
\* updateDocuments, without enumerating sub-folders and without reading any
\* folder's contents.
C3_EmptyAssignmentDoesNothing ==
    (Running /\ DOMAIN ownership = {}) =>
        /\ pc = "done"
        /\ outcome = "nothingToApply"
        /\ storeCalls = 0
        /\ enumCalls = 0
        /\ contentsReads = 0
        /\ strategy = "none"
        /\ allFolders = <<>>
        /\ store = StoreOf(contents)

\* C3 witness: an all-sentinel form over a target with a sub-folder and
\* documents ended in the short-circuit.
C3_Witness ==
    /\ pc = "done"
    /\ outcome = "nothingToApply"
    /\ DOMAIN formData # {}
    /\ parent[2] = 1
    /\ Len(contents[Target].docs) > 0

\* C4: with a non-empty ownership map and no item in any container of the
\* subtree, updateDocuments is never called and the invocation ends with the
\* "no documents" notification, which the empty-assignment ending does not
\* show; an empty assignment ends in the empty-assignment outcome whatever
\* the tree holds.
C4_EmptyTreeReportsNoDocuments ==
    /\ (/\ pc \in {"awaitStore", "done"}
        /\ DOMAIN ownership # {}
        /\ \A f \in Subtree : Len(contents[f].docs) = 0)
          => /\ pc = "done"
             /\ storeCalls = 0
             /\ outcome = "noDocuments"
             /\ notifications = <<NoDocumentsNotification>>
    /\ outcome = "nothingToApply" => notifications = <<>>
    /\ (pc = "done" /\ started > 0 /\ DOMAIN ownership = {})
          => outcome = "nothingToApply"

\* C4 witness: a target and a sub-folder without contents ended in "no
\* documents".
C4_Witness ==
    /\ outcome = "noDocuments"
    /\ parent[2] = 1
    /\ ~contents[2].defined
    /\ Len(allFolders) >= 2

\* C5: the batch passed to updateDocuments holds exactly one update per item
\* of every collected container, so its length is the sum of their item
\* counts, and every update carries the invocation's ownership map.
C5_BatchHoldsOneUpdatePerItem ==
    storeCalls > 0 =>
        /\ Len(batch) = ItemCount(allFolders, Len(allFolders))
        /\ \A f \in Range(allFolders) : \A d \in Range(contents[f].docs) :
              Cardinality({i \in 1..Len(batch) : batch[i]._id = d}) = 1
        /\ \A i \in 1..Len(batch) : batch[i].ownership = ownership
        /\ DOMAIN ownership # {}

\* C5 witness: 2 + 3 items and a folder without contents gave a batch of 5.
C5_Witness ==
    /\ storeCalls = 1
    /\ Len(allFolders) = 3
    /\ Len(contents[1].docs) = 2
    /\ Len(contents[2].docs) = 3
    /\ ~contents[3].defined
    /\ Len(batch) = 5

\* C6: the success notification reports as many items as updates were
\* submitted and as many sub-folders as the subtree has containers, less the
\* target.
C6_SuccessReportsCounts ==
    outcome = "success" =>
        notifications = <<Notification("info", "SuccessCascade", Len(batch),
                                       Cardinality(Subtree) - 1)>>

\* C6 witness: target with 2 items, a sub-folder with 3, a sub-sub-folder with
\* none, collected by the fallback walk: 5 items across 2 sub-folders.
C6_Witness ==
    /\ outcome = "success"
    /\ strategy = "fallback"
    /\ parent[2] = 1
    /\ parent[3] = 2
    /\ Len(contents[1].docs) = 2
    /\ Len(contents[2].docs) = 3
    /\ contents[3].defined
    /\ Len(contents[3].docs) = 0
    /\ notifications[1].count = 5
    /\ notifications[1].folders = 2

\* C7: updateDocuments is called at most once per invocation, and exactly
\* once by the end when the ownership map and the update list are both
\* non-empty; when it rejects, the invocation ends with the error logged and
\* the error notification alone.
C7_RejectionEndsInFailureOnce ==
    /\ storeCalls <= 1
    /\ outcome = "error" =>
          /\ pc = "done"
          /\ errorLogged
          /\ notifications = <<ErrorNotification>>
          /\ storeCalls = 1
    /\ (pc = "done" /\ started > 0) =>
          (storeCalls = 1 <=> (DOMAIN ownership # {} /\ allUpdates # <<>>))

\* C7 witness: a batch of two updates was rejected.
C7_Witness ==
    /\ outcome = "error"
    /\ Len(batch) = 2

\* C8: every identifier in the submitted batch is that of an item held by a
\* collected container and never a container's; the ownership of every
\* container and of every item outside the target's subtree stays as it was.
C8_OnlyItemsOfTheSubtreeChange ==
    /\ \A i \in 1..Len(batch) :
          /\ \E f \in Range(allFolders) : batch[i]._id \in Range(contents[f].docs)
          /\ batch[i]._id \notin {FolderId(f) : f \in Folders}
    /\ \A f \in Folders : store[FolderId(f)] = OriginalOwnership
    /\ \A f \in Folders \ Subtree : \A d \in Range(contents[f].docs) :
          store[d] = OriginalOwnership

\* C8 witness: a cascade succeeded while a folder outside the subtree held
\* documents.
C8_Witness ==
    /\ outcome = "success"
    /\ parent[2] = 1
    /\ parent[3] = 0
    /\ Len(contents[3].docs) > 0
    /\ Len(contents[2].docs) > 0
    /\ store[ItemId(2, 1)] # OriginalOwnership

\* C9: the fallback walk visits no container reference more than once, even
\* when the child references form a cycle or two containers share a child.
C9_FallbackVisitsEachContainerOnce ==
    strategy = "fallback" =>
        \A i, j \in 1..Len(result) : i # j => result[i] # result[j]

\* C10: however often the dialog is rendered, the form has at most one submit
\* listener, so its submission starts at most one cascade invocation and one
\* store call, and none unless the checkbox is checked and the document is a
\* folder.
C10_OneListenerOneCascade ==
    /\ listeners <= 1
    /\ started <= 1
    /\ storeCalls <= started
    /\ Running => started = 1
    /\ started > 0 =>
          /\ submitted
          /\ shouldCascade
          /\ checkboxes # <<>> /\ checkboxes[1]
          /\ docIsFolder

\* C10 witness: the dialog was rendered twice and its submission ran one
\* cascade to the end.
C10_Witness ==
    /\ Len(checkboxes) = 2
    /\ started = 1
    /\ pc = "done"

====
